---- MODULE Spec2Model ----
(***************************************************************************)
(* The Redis fallback queue engine of omniqueue                            *)
(* (omniqueue/src/backends/redis/fallback.rs): an at-least-once queue on   *)
(* two Redis lists (main, processing) with a background reaper that        *)
(* re-enqueues entries of processing whose id is older than the ack        *)
(* deadline, and the type-erased consumer wrapper                          *)
(* (omniqueue/src/queue/consumer.rs).                                      *)
(*                                                                         *)
(* Lists are sequences whose index 1 is the Redis head (the LPUSH side)    *)
(* and whose last index is the Redis tail (the RPUSH / RPOP side).         *)
(*                                                                         *)
(* A stored frame is [id, body]: id stands for the KSUID that prefixes the  *)
(* frame (it never contains the separator), body is the byte string after  *)
(* the first separator.  An id is [age, n]: the timestamp a KSUID embeds   *)
(* is kept relative to the clock (age is the number of clock ticks since   *)
(* the id was generated), n stands for its random part.                    *)
(***************************************************************************)
EXTENDS Integers, Sequences, FiniteSets, TLC

\* ---------------------------------------------------------------- bounds
\* max_receives of the configuration
MaxReceives == 2
\* ack_deadline_ms of the configuration, in clock ticks
AckDeadline == 1
\* frames in use (frames of the lists, copies held by Deliveries and by the
\* reaper) up to which the environment adds a frame
MaxFrames == 2
\* Deliveries a consumer may hold at a time
NumSlots == 1
\* clock ticks that may pass while one reaper iteration is running
MaxScanTicks == 0

\* longest deadline, in clock ticks, passed to receive_all
MaxDeadline == 1
\* largest max_messages passed to receive_all
MaxMessages == 2
\* longest delay of a scheduled send, in ticks
MaxDelay == 2
\* largest max_messages() of a backend
MaxBackend == 2
\* Deliveries held at a time by the consumers that receive concurrently
NumConsumers == 2
\* ticks by which the id of a second-precision KSUID may read younger than the
\* value is (its fifth byte is random where a KsuidMs id carries the
\* milliseconds)
MaxSkew == 50
\* QueueConsumer::max_messages of a backend that sets no limit (None)
NoMax == 0

\* ------------------------------------------------------- program constants
BATCH_SIZE == 50
\* Duration::ZERO, the timeout receive() passes to receive_with_timeout
ZERO == 0

SEP == "|"
Digits == <<"0", "1", "2", "3", "4", "5", "6", "7", "8", "9">>
DigitSet == {Digits[i] : i \in 1..10}

\* user payloads (byte strings); the last one contains the separator byte
Payloads == { <<"a">>, <<"b", "|", "c">> }

\* ages saturate where no comparison with a validity limit can tell them apart
AgeCap == AckDeadline + MaxScanTicks + 1

Min(a, b) == IF a <= b THEN a ELSE b

VARIABLES
    main,        \* the main list: ready frames
    processing,  \* the processing list: claimed frames awaiting ack
    delayed,     \* the delayed sorted set: records [frame, due]
    dlq,         \* the dead-letter list: raw payloads
    ackers,      \* ackers[s]: the RedisFallbackAcker of the Delivery in slot s
    rpc,         \* position of the reaper inside reenqueue_timed_out_messages
    rkeys,       \* reaper: the batch still to scan (keys of the for loop)
    rlimit,      \* reaper: validity_limit, as [age, le]
    status,      \* history: status[p] of the message with payload p
    delivered,   \* history: Deliveries built for the current message of payload p
    nacks,       \* history: calls of nack() that returned Ok for that message
    claims,      \* history: [frame, since] for the frames claimed less than
                 \* AckDeadline ticks ago
    escalated,   \* history: the payloads the reaper found exhausted, in that
                 \* order, since the last redrive
    fifo,        \* history: the frames send_raw wrote that are still on main,
                 \* in the order of the send_raw calls
    call,        \* the receive() / receive_all() call that is blocked in
                 \* BRPOPLPUSH, as [op, timeout, max]
    ret,         \* what the last call of the consumer API returned, as [op, res, n]
    promoter,    \* promoter: the due keys it has pushed to main and has still
                 \* to remove from the delayed set
    redrive      \* the redrive_dlq() call under way, as [pc, keys]

vars == <<main, processing, delayed, dlq, ackers, rpc, rkeys, rlimit,
          status, delivered, nacks, claims, escalated, fifo, call, ret,
          promoter, redrive>>
\* the locals of the promoter task and of a redrive_dlq() call
bg == <<promoter, redrive>>
\* the part of the state that only the calls of the consumer API touch
api == <<call, ret>>
\* the queue itself, its Deliveries, the reaper and the history
core == <<main, processing, delayed, dlq, ackers, rpc, rkeys, rlimit,
          status, delivered, nacks, claims, escalated, fifo, promoter, redrive>>
lists == <<main, processing, delayed, dlq>>
\* the places for the Deliveries that consumers hold
Slots == DOMAIN ackers

\* ------------------------------------------------------------ Redis lists
\* LPUSH key value
lpush(list, v) == <<v>> \o list
\* a push onto the head, as LPUSH does
rpush_head(list, v) == <<v>> \o list
\* an RPUSH that is lost
rpush_lost(list, v) == list
\* RPUSH key value
rpush(list, v) == Append(list, v)
\* LRANGE key 0 stop (stop is inclusive)
lrange(list, stop) == SubSeq(list, 1, Min(stop + 1, Len(list)))
\* index of the first element equal to v, 0 if there is none
RECURSIVE IndexOf(_, _, _)
IndexOf(list, v, i) ==
    IF i > Len(list) THEN 0
    ELSE IF list[i] = v THEN i ELSE IndexOf(list, v, i + 1)
\* LREM key 1 value: removes the first element equal to value, if any
lrem(list, v) ==
    LET i == IndexOf(list, v, 1)
    IN  IF i = 0 THEN list
        ELSE SubSeq(list, 1, i - 1) \o SubSeq(list, i + 1, Len(list))
Range(list) == {list[i] : i \in 1..Len(list)}
\* LPUSH key v1 v2 ...: the values are pushed one after the other, so the last
\* one ends at the head
RECURSIVE lpush_all(_, _)
lpush_all(list, vs) == IF vs = <<>> THEN list ELSE lpush_all(lpush(list, Head(vs)), Tail(vs))

\* the arrangements of the elements of S in a list
RECURSIVE Perms(_)
Perms(S) ==
    IF S = {} THEN {<<>>}
    ELSE UNION {{<<x>> \o q : q \in Perms(S \ {x})} : x \in S}

\* ----------------------------------------------------------------- codec
\* usize::to_string
RECURSIVE itoa(_)
itoa(n) == IF n < 10 THEN <<Digits[n + 1]>> ELSE Append(itoa(n \div 10), Digits[(n % 10) + 1])
DigitVal(d) == CHOOSE i \in 0..9 : Digits[i + 1] = d
\* str::parse::<usize> of a non-empty string of digits
RECURSIVE atoi(_)
atoi(s) == IF Len(s) = 0 THEN 0 ELSE atoi(SubSeq(s, 1, Len(s) - 1)) * 10 + DigitVal(s[Len(s)])
IsNumber(s) == Len(s) > 0 /\ \A i \in 1..Len(s) : s[i] \in DigitSet

StoredFrames == Range(main) \cup Range(processing) \cup {e.frame : e \in delayed}
\* the frames some list entry, Delivery or reaper local still carries
UsedFrames ==
    StoredFrames
        \cup {ackers[s].old_payload : s \in {t \in DOMAIN ackers : ackers[t].live}}
        \cup Range(rkeys)
\* generating a KSUID at the current clock reading: its random part n differs
\* from that of every id in use before the same bytes
FreshId(body) ==
    LET used == {f.id.n : f \in {g \in UsedFrames : g.body = body}}
    IN  [age |-> 0, n |-> CHOOSE k \in 1..(Cardinality(used) + 1) : k \notin used]

\* internal_to_list_payload((payload, num_receives)): id | num_receives | payload,
\* with a freshly generated id
internal_to_list_payload(payload, num_receives) ==
    LET body == itoa(num_receives) \o <<SEP>> \o payload
    IN  [id |-> FreshId(body), body |-> body]

\* internal_from_list(frame): the payload and the number of receives, this one
\* included (the stored counter plus one; a frame without a counter field is
\* a first receive).
internal_from_list(frame) ==
    LET b == frame.body
        i == IndexOf(b, SEP, 1)
    IN  IF i = 0 THEN [ok |-> TRUE, payload |-> b, num_receives |-> 1]
        ELSE IF IsNumber(SubSeq(b, 1, i - 1))
             THEN [ok |-> TRUE, payload |-> SubSeq(b, i + 1, Len(b)),
                   num_receives |-> atoi(SubSeq(b, 1, i - 1)) + 1]
             ELSE [ok |-> FALSE, payload |-> <<>>, num_receives |-> 0]

\* regenerate_key
regenerate_key(key) ==
    LET d == internal_from_list(key)
    IN  internal_to_list_payload(d.payload, d.num_receives)

\* ------------------------------------------------------------ state helpers
NoFrame == [id |-> [age |-> 0, n |-> 0], body |-> <<>>]
\* a slot that holds no Delivery
NoAcker == [live |-> FALSE, old_payload |-> NoFrame, payload |-> <<>>,
            num_receives |-> 0, already_acked_or_nacked |-> FALSE, oked |-> FALSE]
NoLimit == [age |-> 0, le |-> {}]
\* no call is blocked; no call has returned yet
NoCall == [op |-> "none", timeout |-> 0, max |-> 0]
NoRet == [op |-> "none", res |-> "none", n |-> 0]
\* no redrive_dlq() call is under way
NoRedrive == [pc |-> "idle", keys |-> <<>>]

FreeSlot == CHOOSE s \in Slots : ~ackers[s].live /\ \A t \in Slots : ~ackers[t].live => s <= t

\* the values of status[p] of a message that was sent and not acked: "sent",
\* and "dup" once a failed reaper iteration left it on main and in processing
Unacked == {"sent", "dup"}

PayloadOf(frame) == internal_from_list(frame).payload
\* the payload p is somewhere in the system
Present(p) ==
    \/ \E f \in UsedFrames : PayloadOf(f) = p
    \/ p \in Range(dlq)
    \/ \E s \in Slots : ackers[s].live /\ ackers[s].payload = p
\* number of list entries that carry payload p
Count(list, p) == Cardinality({i \in 1..Len(list) : PayloadOf(list[i]) = p})
Locations(p) ==
    Count(main, p) + Count(processing, p)
        + Cardinality({e \in delayed : PayloadOf(e.frame) = p})
        + Cardinality({i \in 1..Len(dlq) : dlq[i] = p})

\* the history of claims keeps the frames that are still in processing
ClaimsAfter(base) == {c \in base : c.frame \in Range(processing')}
KeepClaims == claims' = ClaimsAfter(claims)

Init ==
    /\ main = <<>>
    /\ processing = <<>>
    /\ delayed = {}
    /\ dlq = <<>>
    /\ ackers = [s \in 1..NumSlots |-> NoAcker]
    /\ rpc = "idle"
    /\ rkeys = <<>>
    /\ rlimit = NoLimit
    /\ status = [p \in Payloads |-> "none"]
    /\ delivered = [p \in Payloads |-> 0]
    /\ nacks = [p \in Payloads |-> 0]
    /\ claims = {}
    /\ escalated = <<>>
    /\ fifo = <<>>
    /\ call = NoCall
    /\ ret = NoRet
    /\ promoter = <<>>
    /\ redrive = NoRedrive

\* ---------------------------------------------------------------- producer
\* a send that writes to the end of main that receive() pops from
send_raw_tail(m, payload) == rpush(m, internal_to_list_payload(payload, 0))

\* send_raw(payload): LPUSH main, internal_to_list_payload((payload, 0))
send_raw(m, payload) == lpush(m, internal_to_list_payload(payload, 0))

SendRaw(p) ==
    /\ UNCHANGED api
    /\ UNCHANGED bg
    /\ ~Present(p)
    /\ Cardinality(UsedFrames) < MaxFrames
    /\ main' = send_raw(main, p)
    /\ fifo' = Append(fifo, CHOOSE f \in Range(main') : f \notin Range(main))
    /\ status' = [status EXCEPT ![p] = "sent"]
    /\ delivered' = [delivered EXCEPT ![p] = 0]
    /\ nacks' = [nacks EXCEPT ![p] = 0]
    /\ escalated' = SelectSeq(escalated, LAMBDA q : q # p)
    /\ UNCHANGED <<processing, delayed, dlq, ackers, rpc, rkeys, rlimit, claims>>

\* send_scheduled(payload, delay): the frame with attempts 0 goes to the
\* delayed sorted set with score now + delay; a delay of zero is a send_raw
send_scheduled(m, dl, payload, delay) ==
    IF delay = 0
    THEN [main |-> send_raw(m, payload), delayed |-> dl]
    ELSE [main |-> m,
          delayed |-> dl \cup {[frame |-> internal_to_list_payload(payload, 0),
                                due |-> delay]}]

SendScheduled(p, delay) ==
    /\ UNCHANGED api
    /\ UNCHANGED bg
    /\ ~Present(p)
    /\ Cardinality(UsedFrames) < MaxFrames
    /\ LET r == send_scheduled(main, delayed, p, delay)
       IN  /\ main' = r.main
           /\ delayed' = r.delayed
    /\ fifo' = IF main' = main THEN fifo
               ELSE Append(fifo, CHOOSE f \in Range(main') : f \notin Range(main))
    /\ status' = [status EXCEPT ![p] = "sent"]
    /\ delivered' = [delivered EXCEPT ![p] = 0]
    /\ nacks' = [nacks EXCEPT ![p] = 0]
    /\ escalated' = SelectSeq(escalated, LAMBDA q : q # p)
    /\ UNCHANGED <<processing, dlq, ackers, rpc, rkeys, rlimit, claims>>

\* ZRANGEBYSCORE delayed -inf now: the entries that are due
Due(dl) == {e \in dl : e.due <= 0}

\* an add_to_main_queue that pushes nothing
add_to_main_queue_none(keys, m) == [ok |-> TRUE, main |-> m]

\* add_to_main_queue(keys, main): every key is regenerated, then one LPUSH of
\* them all; an undecodable key fails the call before the command
add_to_main_queue(keys, m) ==
    IF \A i \in 1..Len(keys) : internal_from_list(keys[i]).ok
    THEN [ok |-> TRUE, main |-> lpush_all(m, [i \in 1..Len(keys) |-> regenerate_key(keys[i])])]
    ELSE [ok |-> FALSE, main |-> m]

\* the entries of the delayed set that hold the key
Holding(dl, key) == {e \in dl : e.frame = key}

\* ZREM delayed key
zrem(dl, key) == dl \ Holding(dl, key)

\* the promoter under its lock, first half of an iteration: ZRANGEBYSCORE
\* delayed -inf now, and the due keys go through add_to_main_queue (one
\* LPUSH).  The keys are still in the delayed set afterwards.
PromotePush ==
    /\ UNCHANGED api
    /\ promoter = <<>>
    /\ Due(delayed) # {}
    /\ \E keys \in Perms({e.frame : e \in Due(delayed)}) :
          LET r == add_to_main_queue(keys, main)
          IN  /\ main' = r.main
              /\ promoter' = IF r.ok THEN keys ELSE <<>>
    /\ UNCHANGED <<processing, delayed, dlq, ackers, rpc, rkeys, rlimit, status,
                   delivered, nacks, claims, escalated, fifo, redrive>>

\* second half: ZREM delayed, key by key.  Between the LPUSH and this
\* command any other task may run.
PromoteZrem ==
    /\ UNCHANGED api
    /\ promoter # <<>>
    /\ delayed' = zrem(delayed, Head(promoter))
    /\ promoter' = Tail(promoter)
    /\ UNCHANGED <<main, processing, dlq, ackers, rpc, rkeys, rlimit, status,
                   delivered, nacks, claims, escalated, fifo, redrive>>

\* a ZREM returns an error, or the task stops and another takes the lock
\* after its expiry: the keys that were pushed and not removed are still due,
\* and the next iteration pushes them again
PromoteError ==
    /\ UNCHANGED api
    /\ promoter # <<>>
    /\ Cardinality(UsedFrames) < MaxFrames
    /\ promoter' = <<>>
    /\ status' = [p \in Payloads |->
                     IF status[p] \in Unacked
                        /\ \E k \in Range(promoter) :
                               PayloadOf(k) = p /\ Holding(delayed, k) # {}
                     THEN "dup" ELSE status[p]]
    /\ UNCHANGED <<main, processing, delayed, dlq, ackers, rpc, rkeys, rlimit,
                   delivered, nacks, claims, escalated, fifo, redrive>>

PromoterStep == PromotePush \/ PromoteZrem

\* the ages a validity limit may read off an id that Ksuid::new(None, None)
\* generated now.  The id has the precision of a second; compared with a
\* KsuidMs limit of the same second its random fifth byte stands for the
\* milliseconds, so the value reads anything from younger than it is to
\* overdue at once.
LegacyAges == (0 - MaxSkew)..AgeCap

\* a writer of the former version: <ksuid>|<bytes> (two fields, no counter),
\* the id being a Ksuid that reads age
legacy_frame(bytes, age) == [id |-> [FreshId(bytes) EXCEPT !.age = age], body |-> bytes]

\* LPUSH main, legacy value
LegacyPush(p) ==
    /\ UNCHANGED api
    /\ UNCHANGED bg
    /\ ~Present(p)
    /\ \A f \in UsedFrames : f.body # p
    /\ Cardinality(UsedFrames) < MaxFrames
    /\ \E age \in LegacyAges : main' = lpush(main, legacy_frame(p, age))
    /\ status' = [status EXCEPT ![p] = "sent"]
    /\ delivered' = [delivered EXCEPT ![p] = 0]
    /\ nacks' = [nacks EXCEPT ![p] = 0]
    /\ UNCHANGED <<processing, delayed, dlq, ackers, rpc, rkeys, rlimit, claims,
                   escalated, fifo>>

\* ---------------------------------------------------------------- consumer
\* a Delivery that hands out the stored frame body (counter, separator and
\* payload) instead of the decoded payload
internal_to_delivery_framed(payload, num_receives, old_payload) ==
    [live |-> TRUE, old_payload |-> old_payload, payload |-> old_payload.body,
     num_receives |-> num_receives, already_acked_or_nacked |-> FALSE, oked |-> FALSE]

\* internal_to_delivery: the Delivery and its RedisFallbackAcker
internal_to_delivery(payload, num_receives, old_payload) ==
    [live |-> TRUE, old_payload |-> old_payload, payload |-> payload,
     num_receives |-> num_receives, already_acked_or_nacked |-> FALSE, oked |-> FALSE]

\* a pop that leaves the frame on the source list
brpoplpush_src_keep(m) == m

\* BRPOPLPUSH main processing: the tail of main becomes the head of processing
brpoplpush_src(m) == SubSeq(m, 1, Len(m) - 1)
\* a move that counts the receive when the frame is claimed
brpoplpush_dst_counted(m, pr) ==
    lpush(pr, [m[Len(m)] EXCEPT !.body = itoa(internal_from_list(m[Len(m)]).num_receives)
                                             \o <<SEP>> \o internal_from_list(m[Len(m)]).payload])
brpoplpush_dst(m, pr) == lpush(pr, m[Len(m)])

\* a receive that puts back the frame it cannot decode
receive_with_timeout_undo(m, pr) ==
    IF Len(m) = 0
    THEN [main |-> m, processing |-> pr, res |-> "None", delivery |-> NoAcker]
    ELSE LET old_payload == m[Len(m)]
             d == internal_from_list(old_payload)
         IN  IF d.ok
             THEN [main |-> brpoplpush_src(m),
                   processing |-> brpoplpush_dst(m, pr),
                   res |-> "Ok",
                   delivery |-> internal_to_delivery(d.payload, d.num_receives, old_payload)]
             ELSE [main |-> m, processing |-> pr, res |-> "Generic", delivery |-> NoAcker]

\* receive_with_timeout on the lists m and pr: the lists after the command and
\* what the call returns.  res is "Ok" with a Delivery, "None" when the command
\* timed out on an empty list, "Generic" when the popped frame does not decode.
receive_with_timeout(m, pr) ==
    IF Len(m) = 0
    THEN [main |-> m, processing |-> pr, res |-> "None", delivery |-> NoAcker]
    ELSE LET old_payload == m[Len(m)]
             d == internal_from_list(old_payload)
         IN  [main |-> brpoplpush_src(m),
              processing |-> brpoplpush_dst(m, pr),
              res |-> IF d.ok THEN "Ok" ELSE "Generic",
              delivery |-> IF d.ok
                           THEN internal_to_delivery(d.payload, d.num_receives, old_payload)
                           ELSE NoAcker]

\* receive() / receive_all() with a frame on main.
\* keep: the caller holds on to the Delivery; otherwise it drops it at once
\* (or the call was cancelled after the server had moved the frame).
ReceiveEffect(keep) ==
    /\ Len(main) > 0
    /\ keep => \E s \in Slots : ~ackers[s].live
    /\ LET r == receive_with_timeout(main, processing)
           p == r.delivery.payload
       IN  /\ main' = r.main
           /\ processing' = r.processing
           /\ fifo' = lrem(fifo, main[Len(main)])
           /\ IF r.res = "Ok" /\ keep
              THEN ackers' = [ackers EXCEPT ![FreeSlot] = r.delivery]
              ELSE UNCHANGED ackers
           /\ IF r.res = "Ok" /\ p \in Payloads /\ status[p] \in Unacked
              THEN delivered' = [delivered EXCEPT ![p] = Min(@ + 1, MaxReceives + 1)]
              ELSE UNCHANGED delivered
           /\ claims' = ClaimsAfter(claims \cup {[frame |-> main[Len(main)], since |-> 0]})
    /\ UNCHANGED <<delayed, dlq, rpc, rkeys, rlimit, status, nacks, escalated>>
    /\ UNCHANGED bg

Receive(keep) == ReceiveEffect(keep) /\ UNCHANGED api

\* ---- the calls of the consumer API, step by step
\* what receive() returns for the result r of receive_with_timeout: None
\* becomes the error Generic("No data")
receive(r) ==
    IF r.res = "None" THEN [res |-> "Generic(No data)", n |-> 0]
    ELSE [res |-> r.res, n |-> IF r.res = "Ok" THEN 1 ELSE 0]

\* what receive_all() returns: the Option as a vector of zero or one Delivery
receive_all(r) ==
    IF r.res = "None" THEN [res |-> "Ok", n |-> 0]
    ELSE [res |-> r.res, n |-> IF r.res = "Ok" THEN 1 ELSE 0]

\* receive(): BRPOPLPUSH main processing 0 is sent
CallReceive ==
    /\ call = NoCall
    /\ call' = [op |-> "receive", timeout |-> ZERO, max |-> 0]
    /\ UNCHANGED <<core, ret>>

\* receive_all(consumer, deadline, _max_messages): BRPOPLPUSH main processing
\* deadline is sent; max_messages is not used
CallReceiveAll(max_messages, deadline) ==
    /\ call = NoCall
    /\ call' = [op |-> "receive_all", timeout |-> deadline, max |-> max_messages]
    /\ UNCHANGED <<core, ret>>

\* a wrapper that passes max_messages on as it got it
DynConsumer_receive_all_unclamped(backend_max, max_messages, deadline) ==
    [max_messages |-> max_messages, deadline |-> deadline]

\* DynConsumer::receive_all(max_messages, deadline) on a backend whose
\* max_messages() is backend_max: the arguments of the backend's receive_all
DynConsumer_receive_all(backend_max, max_messages, deadline) ==
    [max_messages |-> IF backend_max # NoMax
                      THEN Min(max_messages, backend_max)
                      ELSE max_messages,
     deadline |-> deadline]

\* the type-erased consumer is asked for max_messages within deadline and
\* calls the backend, which sends its BRPOPLPUSH; the call keeps what the
\* wrapper was asked and the limit of its backend
DynReceiveAll(backend_max, max_messages, deadline) ==
    /\ call = NoCall
    /\ LET a == DynConsumer_receive_all(backend_max, max_messages, deadline)
       IN  call' = [op |-> "receive_all", timeout |-> a.deadline, max |-> a.max_messages,
                    asked |-> max_messages, backend_max |-> backend_max]
    /\ UNCHANGED <<core, ret>>

\* the server finds a frame on main for the blocked command and the call returns
Serve(keep) ==
    /\ call.op # "none"
    /\ ReceiveEffect(keep)
    /\ LET r == receive_with_timeout(main, processing)
           out == IF call.op = "receive" THEN receive(r) ELSE receive_all(r)
       IN  ret' = [op |-> call.op, res |-> out.res, n |-> out.n]
    /\ call' = NoCall

\* the timeout of the blocked command expires on an empty main: the reply is
\* nil.  A timeout of zero blocks without limit.
TimeOut ==
    /\ call.op # "none"
    /\ main = <<>>
    /\ call.timeout > 0
    /\ LET r == receive_with_timeout(main, processing)
           out == IF call.op = "receive" THEN receive(r) ELSE receive_all(r)
       IN  ret' = [op |-> call.op, res |-> out.res, n |-> out.n]
    /\ call' = NoCall
    /\ UNCHANGED core

\* the Delivery goes out of scope
Drop(s) ==
    /\ UNCHANGED api
    /\ UNCHANGED bg
    /\ UNCHANGED fifo
    /\ ackers[s].live
    /\ ackers' = [ackers EXCEPT ![s] = NoAcker]
    /\ UNCHANGED <<main, processing, delayed, dlq, rpc, rkeys, rlimit, status,
                   delivered, nacks, claims, escalated>>

\* ------------------------------------------------------------------- acker
\* an ack that removes the first entry carrying the same payload, whatever
\* its id and counter
ack_by_payload(a, pr, fail) ==
    IF a.already_acked_or_nacked
    THEN [acker |-> a, processing |-> pr, res |-> "CannotAckOrNackTwice"]
    ELSE IF fail
    THEN [acker |-> a, processing |-> pr, res |-> "Generic"]
    ELSE LET same == {i \in 1..Len(pr) : PayloadOf(pr[i]) = a.payload}
             first == CHOOSE i \in same : \A j \in same : i <= j
         IN  [acker |-> [a EXCEPT !.already_acked_or_nacked = TRUE],
              processing |-> IF same = {} THEN pr
                             ELSE SubSeq(pr, 1, first - 1) \o SubSeq(pr, first + 1, Len(pr)),
              res |-> "Ok"]

\* an ack that sets the flag before it sends the command
ack_flag_first(a, pr, fail) ==
    IF a.already_acked_or_nacked
    THEN [acker |-> a, processing |-> pr, res |-> "CannotAckOrNackTwice"]
    ELSE IF fail
    THEN [acker |-> [a EXCEPT !.already_acked_or_nacked = TRUE],
          processing |-> pr, res |-> "Generic"]
    ELSE [acker |-> [a EXCEPT !.already_acked_or_nacked = TRUE],
          processing |-> lrem(pr, a.old_payload), res |-> "Ok"]

\* RedisFallbackAcker::ack without its first test
ack_unguarded(a, pr, fail) ==
    IF fail
    THEN [acker |-> a, processing |-> pr, res |-> "Generic"]
    ELSE [acker |-> [a EXCEPT !.already_acked_or_nacked = TRUE],
          processing |-> lrem(pr, a.old_payload), res |-> "Ok"]

\* RedisFallbackAcker::ack.  fail: the pool or the LREM command returns an error.
\* The result is the acker, the processing list and the value returned.
ack(a, pr, fail) ==
    IF a.already_acked_or_nacked
    THEN [acker |-> a, processing |-> pr, res |-> "CannotAckOrNackTwice"]
    ELSE IF fail
    THEN [acker |-> a, processing |-> pr, res |-> "Generic"]
    ELSE [acker |-> [a EXCEPT !.already_acked_or_nacked = TRUE],
          processing |-> lrem(pr, a.old_payload), res |-> "Ok"]

\* a nack that never removes the frame
nack_flag_only(a, pr, fail) ==
    IF a.already_acked_or_nacked
    THEN [acker |-> a, processing |-> pr, res |-> "CannotAckOrNackTwice"]
    ELSE [acker |-> [a EXCEPT !.already_acked_or_nacked = TRUE],
          processing |-> pr, res |-> "Ok"]

\* RedisFallbackAcker::nack
nack(a, pr, fail) ==
    IF a.num_receives >= MaxReceives
    THEN ack(a, pr, fail)
    ELSE IF a.already_acked_or_nacked
    THEN [acker |-> a, processing |-> pr, res |-> "CannotAckOrNackTwice"]
    ELSE [acker |-> [a EXCEPT !.already_acked_or_nacked = TRUE],
          processing |-> pr, res |-> "Ok"]

\* a set_ack_deadline that accepts the deadline and re-opens the Delivery
set_ack_deadline_ok(a, duration) ==
    [acker |-> [a EXCEPT !.already_acked_or_nacked = FALSE], res |-> "Ok"]

\* RedisFallbackAcker::set_ack_deadline
set_ack_deadline(a, duration) == [acker |-> a, res |-> "Unsupported"]

SetAckDeadline(s, duration) ==
    /\ ackers[s].live
    /\ LET r == set_ack_deadline(ackers[s], duration)
       IN  /\ ackers' = [ackers EXCEPT ![s] = r.acker]
           /\ ret' = [op |-> "set_ack_deadline", res |-> r.res, n |-> 0]
    /\ UNCHANGED <<main, processing, delayed, dlq, rpc, rkeys, rlimit, status,
                   delivered, nacks, claims, escalated, fifo, call>>
    /\ UNCHANGED bg

\* the Delivery after the call: oked records that some call has returned Ok
Called(r) == [r.acker EXCEPT !.oked = @ \/ r.res = "Ok"]

Ack(s, fail) ==
    /\ UNCHANGED api
    /\ UNCHANGED bg
    /\ UNCHANGED fifo
    /\ ackers[s].live
    /\ LET r == ack(ackers[s], processing, fail)
           p == ackers[s].payload
       IN  /\ ackers' = [ackers EXCEPT ![s] = Called(r)]
           /\ processing' = r.processing
           /\ IF r.res = "Ok" /\ p \in Payloads
              THEN /\ status' = [status EXCEPT ![p] = "acked"]
                   /\ delivered' = [delivered EXCEPT ![p] = 0]
                   /\ nacks' = [nacks EXCEPT ![p] = 0]
              ELSE UNCHANGED <<status, delivered, nacks>>
    /\ KeepClaims
    /\ UNCHANGED <<main, delayed, dlq, rpc, rkeys, rlimit, escalated>>

Nack(s, fail) ==
    /\ UNCHANGED api
    /\ UNCHANGED bg
    /\ UNCHANGED fifo
    /\ ackers[s].live
    /\ LET r == nack(ackers[s], processing, fail)
           p == ackers[s].payload
       IN  /\ ackers' = [ackers EXCEPT ![s] = Called(r)]
           /\ processing' = r.processing
           /\ IF r.res = "Ok" /\ p \in Payloads /\ status[p] \in Unacked
              THEN nacks' = [nacks EXCEPT ![p] = Min(@ + 1, MaxReceives + 1)]
              ELSE UNCHANGED nacks
    /\ KeepClaims
    /\ UNCHANGED <<main, delayed, dlq, rpc, rkeys, rlimit, status, delivered, escalated>>

\* nack() on a queue configured with the flag reinsert_on_nack: the acker that
\* internal_to_delivery builds has no field for the flag and nack never reads
\* it, so the call is the same for both values
NackWith(s, reinsert_on_nack) == Nack(s, FALSE)

\* ------------------------------------------------------------------ reaper
\* a comparison that finds every key overdue
KeyLeLimit_always(key, limit) == TRUE

\* key <= validity_limit, a comparison of byte strings, decided key by key:
\* the id of the key is older than the limit's, or it is as old and its
\* random part is the smaller one.  limit.le is the set of the keys as old as
\* the limit whose random part is below the random part of the limit.
KeyLeLimit(key, limit) ==
    \/ key.id.age > limit.age
    \/ key.id.age = limit.age /\ key \in limit.le

\* the stored values whose id carries the timestamp of a limit generated now:
\* the random part of the limit falls above some of them and below the others
Tied == {f \in StoredFrames : f.id.age = AckDeadline}

\* num_receives >= max_receives: the frame is not re-enqueued
Exhausted(num_receives) == num_receives >= MaxReceives

\* a task that returns the error of its iteration
background_task_processing_returns(res) == IF res = "Err" THEN "returned" ELSE "idle"

\* background_task_processing: the loop around reenqueue_timed_out_messages.
\* res is what the iteration returned; after Ok(()) the loop starts the next
\* iteration, after Err it logs the error, sleeps 500 ms and continues.  The
\* value is the position of the task afterwards.
background_task_processing(res) == "idle"

\* reenqueue_timed_out_messages, up to the gate: LRANGE processing 0 1, the
\* validity limit KsuidMs(now - ack_deadline), and the test of keys[0].
\* When the gate is shut the iteration sleeps 500 ms and returns.
ReaperPeek ==
    /\ UNCHANGED api
    /\ UNCHANGED bg
    /\ UNCHANGED fifo
    /\ rpc = "idle"
    /\ \E le \in SUBSET Tied :
        LET keys == lrange(processing, 1)
            validity_limit == [age |-> AckDeadline, le |-> le]
        IN  IF keys # <<>> /\ KeyLeLimit(keys[1], validity_limit)
            THEN /\ rpc' = "batch"
                 /\ rlimit' = validity_limit
            ELSE UNCHANGED <<rpc, rlimit>>
    /\ UNCHANGED <<main, processing, delayed, dlq, ackers, rkeys, status, delivered,
                   nacks, claims, escalated>>

\* LRANGE processing 0 BATCH_SIZE
ReaperBatch ==
    /\ UNCHANGED api
    /\ UNCHANGED bg
    /\ UNCHANGED fifo
    /\ rpc = "batch"
    /\ rkeys' = lrange(processing, BATCH_SIZE)
    /\ rpc' = "scan"
    /\ UNCHANGED <<main, processing, delayed, dlq, ackers, rlimit, status, delivered,
                   nacks, claims, escalated>>

\* a scan that passes over a key it cannot decode
ReaperScan_lenient ==
    /\ UNCHANGED api
    /\ UNCHANGED bg
    /\ UNCHANGED fifo
    /\ rpc = "scan"
    /\ IF rkeys = <<>>
       THEN \* the loop is over: Ok(())
            /\ rpc' = background_task_processing("Ok")
            /\ rlimit' = NoLimit
            /\ UNCHANGED <<main, processing, rkeys, escalated>>
       ELSE LET key == Head(rkeys)
                internal == internal_from_list(key)
            IN  IF ~KeyLeLimit(key, rlimit)
                THEN \* not overdue: next key
                     /\ rkeys' = Tail(rkeys)
                     /\ UNCHANGED <<main, processing, rpc, rlimit, escalated>>
                ELSE IF ~internal.ok
                THEN \* the key is left where it is: next key
                     /\ rkeys' = Tail(rkeys)
                     /\ UNCHANGED <<main, processing, rpc, rlimit, escalated>>
                ELSE IF Exhausted(internal.num_receives)
                THEN \* not re-enqueued; LREM processing 1 key
                     /\ processing' = lrem(processing, key)
                     /\ rkeys' = Tail(rkeys)
                     /\ escalated' = IF key \in Range(processing)
                                        /\ internal.payload \notin Range(escalated)
                                     THEN Append(escalated, internal.payload)
                                     ELSE escalated
                     /\ UNCHANGED <<main, rpc, rlimit>>
                ELSE \* RPUSH main, internal_to_list_payload(internal)
                     /\ main' = rpush(main, internal_to_list_payload(
                                    internal.payload, internal.num_receives))
                     /\ rpc' = "lrem"
                     /\ UNCHANGED <<processing, rkeys, rlimit, escalated>>
    /\ KeepClaims
    /\ UNCHANGED <<delayed, dlq, ackers, status, delivered, nacks>>

\* one round of the for loop, up to its first command
ReaperScan ==
    /\ UNCHANGED api
    /\ UNCHANGED bg
    /\ UNCHANGED fifo
    /\ rpc = "scan"
    /\ IF rkeys = <<>>
       THEN \* the loop is over: Ok(())
            /\ rpc' = background_task_processing("Ok")
            /\ rlimit' = NoLimit
            /\ UNCHANGED <<main, processing, rkeys, escalated>>
       ELSE LET key == Head(rkeys)
                internal == internal_from_list(key)
            IN  IF ~KeyLeLimit(key, rlimit)
                THEN \* not overdue: next key
                     /\ rkeys' = Tail(rkeys)
                     /\ UNCHANGED <<main, processing, rpc, rlimit, escalated>>
                ELSE IF ~internal.ok
                THEN \* internal_from_list(&key)? returns the error
                     /\ rpc' = background_task_processing("Err")
                     /\ rkeys' = <<>>
                     /\ rlimit' = NoLimit
                     /\ UNCHANGED <<main, processing, escalated>>
                ELSE IF Exhausted(internal.num_receives)
                THEN \* not re-enqueued; LREM processing 1 key
                     /\ processing' = lrem(processing, key)
                     /\ rkeys' = Tail(rkeys)
                     /\ escalated' = IF key \in Range(processing)
                                        /\ internal.payload \notin Range(escalated)
                                     THEN Append(escalated, internal.payload)
                                     ELSE escalated
                     /\ UNCHANGED <<main, rpc, rlimit>>
                ELSE \* RPUSH main, internal_to_list_payload(internal)
                     /\ main' = rpush(main, internal_to_list_payload(
                                    internal.payload, internal.num_receives))
                     /\ rpc' = "lrem"
                     /\ UNCHANGED <<processing, rkeys, rlimit, escalated>>
    /\ KeepClaims
    /\ UNCHANGED <<delayed, dlq, ackers, status, delivered, nacks>>

\* LREM processing 1 key, after the RPUSH
ReaperLrem ==
    /\ UNCHANGED api
    /\ UNCHANGED bg
    /\ UNCHANGED fifo
    /\ rpc = "lrem"
    /\ processing' = lrem(processing, Head(rkeys))
    /\ rkeys' = Tail(rkeys)
    /\ rpc' = "scan"
    /\ KeepClaims
    /\ UNCHANGED <<main, delayed, dlq, ackers, rlimit, status, delivered, nacks, escalated>>

\* a command of the iteration returns an error: reenqueue_timed_out_messages
\* returns it, background_task_processing logs it, sleeps and starts over.
\* After the RPUSH and before the LREM this leaves the message in both lists.
ReaperError ==
    /\ UNCHANGED api
    /\ UNCHANGED bg
    /\ UNCHANGED fifo
    /\ rpc # "idle"
    /\ rpc = "lrem" => Cardinality(UsedFrames) <= MaxFrames
    /\ rpc' = background_task_processing("Err")
    /\ rkeys' = <<>>
    /\ rlimit' = NoLimit
    /\ status' = IF rpc = "lrem" /\ PayloadOf(Head(rkeys)) \in Payloads
                    /\ status[PayloadOf(Head(rkeys))] \in Unacked
                 THEN [status EXCEPT ![PayloadOf(Head(rkeys))] = "dup"]
                 ELSE status
    /\ UNCHANGED <<main, processing, delayed, dlq, ackers, delivered, nacks, claims, escalated>>

\* ----------------------------------------------------------------- redrive
\* redrive_dlq(), one frame: LPUSH main, the payload framed with no receives
redrive_push(m, payload) == lpush(m, internal_to_list_payload(payload, 0))

\* redrive_dlq(), one frame: LREM dlq 1 payload, after its LPUSH
redrive_rem(d, payload) == lrem(d, payload)

\* a redrive_dlq() that runs to its end, no command failing and no other task
\* in between: for each payload of dlq in turn the LPUSH, then the LREM
RECURSIVE redrive_dlq(_, _)
redrive_dlq(m, d) ==
    IF d = <<>>
    THEN [main |-> m, dlq |-> d]
    ELSE redrive_dlq(redrive_push(m, d[1]), redrive_rem(d, d[1]))

\* redrive_dlq(), command by command.  idle: the call starts with LRANGE dlq
\* 0 -1 and returns Ok at once when the list is empty; push: LPUSH of the next
\* payload, or Ok when none is left; rem: LREM of the payload just pushed.  A
\* command that fails ends the call with its error and leaves the lists as
\* the commands before it left them.
RedriveDlq(fail) ==
    /\ UNCHANGED api
    /\ UNCHANGED fifo
    /\ IF fail
       THEN /\ redrive' = NoRedrive
            /\ UNCHANGED <<main, dlq, escalated>>
       ELSE IF redrive.pc = "idle"
       THEN /\ redrive' = IF dlq = <<>> THEN NoRedrive ELSE [pc |-> "push", keys |-> dlq]
            /\ escalated' = IF dlq = <<>> THEN <<>> ELSE escalated
            /\ UNCHANGED <<main, dlq>>
       ELSE IF redrive.pc = "push"
       THEN IF redrive.keys = <<>>
            THEN /\ redrive' = NoRedrive
                 /\ escalated' = <<>>
                 /\ UNCHANGED <<main, dlq>>
            ELSE /\ main' = redrive_push(main, Head(redrive.keys))
                 /\ redrive' = [redrive EXCEPT !.pc = "rem"]
                 /\ UNCHANGED <<dlq, escalated>>
       ELSE /\ dlq' = redrive_rem(dlq, Head(redrive.keys))
            /\ redrive' = [pc |-> "push", keys |-> Tail(redrive.keys)]
            /\ UNCHANGED <<main, escalated>>
    /\ UNCHANGED <<processing, delayed, ackers, rpc, rkeys, rlimit, status, delivered,
                   nacks, claims, promoter>>

\* ------------------------------------------------------------------- clock
Older(f) == [f EXCEPT !.id.age = Min(@ + 1, AgeCap)]
OlderList(list) == [i \in 1..Len(list) |-> Older(list[i])]

\* one tick of the clock: every id is one tick older
Tick ==
    /\ UNCHANGED api
    /\ promoter' = OlderList(promoter)
    /\ UNCHANGED redrive
    /\ rpc # "idle" => rlimit.age < AckDeadline + MaxScanTicks
    /\ main' = OlderList(main)
    /\ processing' = OlderList(processing)
    /\ delayed' = {[frame |-> Older(e.frame), due |-> IF e.due > 0 THEN e.due - 1 ELSE 0] : e \in delayed}
    /\ ackers' = [s \in Slots |->
                     IF ackers[s].live
                     THEN [ackers[s] EXCEPT !.old_payload = Older(@)]
                     ELSE ackers[s]]
    /\ rkeys' = OlderList(rkeys)
    /\ fifo' = OlderList(fifo)
    /\ rlimit' = IF rpc = "idle" THEN rlimit
                  ELSE [age |-> rlimit.age + 1, le |-> {Older(f) : f \in rlimit.le}]
    /\ claims' = {[frame |-> Older(c.frame), since |-> c.since + 1] :
                     c \in {x \in claims : x.since + 1 < AckDeadline}}
    /\ UNCHANGED <<dlq, rpc, status, delivered, nacks, escalated>>

ReaperStep == ReaperPeek \/ ReaperBatch \/ ReaperScan \/ ReaperLrem

Next ==
    \/ \E p \in Payloads : SendRaw(p)
    \/ \E keep \in BOOLEAN : Receive(keep)
    \/ \E s \in Slots : Drop(s)
    \/ \E s \in Slots, fail \in BOOLEAN : Ack(s, fail)
    \/ \E s \in Slots, fail \in BOOLEAN : Nack(s, fail)
    \/ ReaperPeek
    \/ ReaperBatch
    \/ ReaperScan
    \/ ReaperLrem
    \/ ReaperError
    \/ \E fail \in BOOLEAN : RedriveDlq(fail)
    \/ Tick

Spec == Init /\ [][Next]_vars

\* The runs without failing commands, with a reaper task that keeps looping
\* (background_task_processing) and a clock that keeps advancing.
LiveNext ==
    \/ \E p \in Payloads : SendRaw(p)
    \/ \E keep \in BOOLEAN : Receive(keep)
    \/ \E s \in Slots : Drop(s)
    \/ \E s \in Slots : Ack(s, FALSE)
    \/ \E s \in Slots : Nack(s, FALSE)
    \/ ReaperStep
    \/ Tick

\* The runs in which commands of the reaper fail, with a reaper task and a
\* clock that keep going.
ErrNext ==
    \/ \E p \in Payloads : SendRaw(p)
    \/ \E keep \in BOOLEAN : Receive(keep)
    \/ \E s \in Slots : Drop(s)
    \/ \E s \in Slots : Ack(s, FALSE)
    \/ ReaperStep
    \/ ReaperError
    \/ Tick

ErrSpec == Init /\ [][ErrNext]_vars /\ WF_vars(ReaperStep) /\ WF_vars(Tick)

\* The queue under either value of the configuration flag reinsert_on_nack.
NackNext ==
    \/ \E p \in Payloads : SendRaw(p)
    \/ \E keep \in BOOLEAN : Receive(keep)
    \/ \E s \in Slots : Drop(s)
    \/ \E s \in Slots, reinsert_on_nack \in BOOLEAN : NackWith(s, reinsert_on_nack)
    \/ ReaperStep
    \/ Tick

NackSpec == Init /\ [][NackNext]_vars

\* Consumers that receive concurrently and hold up to NumConsumers Deliveries
\* between them.
DuoInit ==
    /\ main = <<>>
    /\ processing = <<>>
    /\ delayed = {}
    /\ dlq = <<>>
    /\ ackers = [s \in 1..NumConsumers |-> NoAcker]
    /\ rpc = "idle"
    /\ rkeys = <<>>
    /\ rlimit = NoLimit
    /\ status = [p \in Payloads |-> "none"]
    /\ delivered = [p \in Payloads |-> 0]
    /\ nacks = [p \in Payloads |-> 0]
    /\ claims = {}
    /\ escalated = <<>>
    /\ fifo = <<>>
    /\ call = NoCall
    /\ ret = NoRet
    /\ promoter = <<>>
    /\ redrive = NoRedrive

DuoNext ==
    \/ \E p \in Payloads : SendRaw(p)
    \/ \E keep \in BOOLEAN : Receive(keep)
    \/ \E s \in Slots : Drop(s)
    \/ \E s \in Slots : Ack(s, FALSE)
    \/ ReaperStep
    \/ Tick

DuoSpec == DuoInit /\ [][DuoNext]_vars

\* The consumer API call by call, with the values the calls return: a server
\* that answers a blocked BRPOPLPUSH as soon as it can and when its timeout
\* expires.
ApiNext ==
    \/ \E p \in Payloads : SendRaw(p)
    \/ CallReceive
    \/ \E m \in 1..MaxMessages, d \in 0..MaxDeadline : CallReceiveAll(m, d)
    \/ \E keep \in BOOLEAN : Serve(keep)
    \/ TimeOut
    \/ \E s \in Slots : Ack(s, FALSE)
    \/ \E s \in Slots : Nack(s, FALSE)
    \/ \E s \in Slots, d \in 0..MaxDeadline : SetAckDeadline(s, d)
    \/ \E s \in Slots : Drop(s)

ApiSpec ==
    Init /\ [][ApiNext]_vars
         /\ WF_vars(\E keep \in BOOLEAN : Serve(keep)) /\ WF_vars(TimeOut)

\* The queue behind the type-erased consumer, over backends with and without
\* a limit on max_messages.
DynNext ==
    \/ \E p \in Payloads : SendRaw(p)
    \/ \E b \in {NoMax} \cup 1..MaxBackend, m \in 0..(MaxBackend + 1), d \in 0..MaxDeadline :
          DynReceiveAll(b, m, d)
    \/ \E keep \in BOOLEAN : Serve(keep)
    \/ TimeOut
    \/ \E s \in Slots : Ack(s, FALSE)
    \/ \E s \in Slots : Drop(s)

DynSpec == Init /\ [][DynNext]_vars

\* The queue with scheduled sends and the promoter; the promoter and the
\* reaper keep running as the clock does.
SchedNext ==
    \/ \E p \in Payloads, d \in 0..MaxDelay : SendScheduled(p, d)
    \/ PromotePush
    \/ PromoteZrem
    \/ PromoteError
    \/ \E keep \in BOOLEAN : Receive(keep)
    \/ \E s \in Slots : Drop(s)
    \/ \E s \in Slots : Ack(s, FALSE)
    \/ ReaperStep
    \/ Tick

SchedSpec ==
    Init /\ [][SchedNext]_vars
        /\ WF_vars(PromoterStep) /\ WF_vars(ReaperStep) /\ WF_vars(Tick)

\* A queue that holds frames written by the former version.
LegacyNext ==
    \/ \E p \in Payloads : LegacyPush(p)
    \/ \E keep \in BOOLEAN : Receive(keep)
    \/ \E s \in Slots : Drop(s)
    \/ \E s \in Slots : Ack(s, FALSE)
    \/ ReaperStep
    \/ Tick

LegacySpec == Init /\ [][LegacyNext]_vars

LiveSpec == Init /\ [][LiveNext]_vars /\ WF_vars(ReaperStep) /\ WF_vars(Tick)

TypeOK ==
    /\ rpc \in {"idle", "batch", "scan", "lrem"}
    /\ \A p \in Payloads : /\ delivered[p] \in 0..(MaxReceives + 1)
                           /\ nacks[p] \in 0..(MaxReceives + 1)
                           /\ status[p] \in {"none", "acked"} \cup Unacked
    /\ Cardinality(UsedFrames) <= MaxFrames + NumSlots + 1
    /\ \A i, j \in 1..Len(processing) : i # j => processing[i] # processing[j]

\* ------------------------------------------------------------------ claims
\* C1  Round trip: when send_raw(P) succeeds on a queue whose main list holds
\* no earlier frame, the next receive() returns Ok with a Delivery whose
\* payload is byte-equal to P, for payloads with and without the separator.
C1_RoundTrip ==
    [][\A p \in Payloads :
          (main = <<>> /\ ~Present(p) /\ main' = send_raw(main, p))
              => LET r == receive_with_timeout(main', processing')
                 IN  /\ r.res = "Ok"
                     /\ r.delivery.payload = p
                     /\ r.main = <<>>]_vars

\* a Delivery of the payload that contains the separator, received first time
C1_Witness ==
    \E s \in Slots : /\ ackers[s].live
                     /\ ackers[s].payload = <<"b", "|", "c">>
                     /\ ackers[s].num_receives = 1
                     /\ main = <<>>

\* C2  Finalize is one-shot: once ack() or nack() of a Delivery has returned
\* Ok, every later ack() or nack() of it, with or without a failing
\* connection and whatever its receive count, returns CannotAckOrNackTwice and
\* leaves the processing list as it is.
C2_FinalizeOnce ==
    \A s \in Slots : (ackers[s].live /\ ackers[s].oked) =>
        \A fail \in BOOLEAN :
            /\ ack(ackers[s], processing, fail).res = "CannotAckOrNackTwice"
            /\ ack(ackers[s], processing, fail).processing = processing
            /\ nack(ackers[s], processing, fail).res = "CannotAckOrNackTwice"
            /\ nack(ackers[s], processing, fail).processing = processing

\* a Delivery whose nack() returned Ok while its frame is still in processing,
\* where an unguarded second ack() would remove it
C2_Witness ==
    \E s \in Slots : /\ ackers[s].live /\ ackers[s].oked
                     /\ ackers[s].old_payload \in Range(processing)

\* ---- helpers of the claims below
\* no frame of payload p is on main or in processing
Gone(p) == Count(main, p) + Count(processing, p) = 0
\* the payloads in the order in which receive() calls return them from list m
PopPayloads(m) == [i \in 1..Len(m) |-> PayloadOf(m[Len(m) + 1 - i])]
\* the attempts counter written in a stored frame
StoredAttempts(frame) == internal_from_list(frame).num_receives - 1
\* a frame of p is in processing with receives left, and p was not acked
Claimed(p) ==
    /\ status[p] \in Unacked
    /\ \E f \in Range(processing) :
           PayloadOf(f) = p /\ ~Exhausted(internal_from_list(f).num_receives)

\* C3  Visibility reclaim: under a reaper that keeps running, a frame that
\* receive() moved into processing, with receives left, of a message that is
\* never acked, is eventually back on main.
C3_VisibilityReclaim ==
    \A p \in Payloads : Claimed(p) ~> (Count(main, p) > 0 \/ status[p] = "acked")

\* C4  DLQ escalation: a message that was received max_receives times, never
\* acked or nacked, and whose last frame the reaper has taken out of
\* processing, is in dlq exactly once, as the raw payload.
C4_DlqEscalation ==
    \A p \in Payloads :
        (rpc = "idle" /\ status[p] = "sent" /\ nacks[p] = 0
             /\ delivered[p] = MaxReceives /\ Gone(p))
        => Cardinality({i \in 1..Len(dlq) : dlq[i] = p}) = 1

\* p is in the delayed set
Parked(p) == \E e \in delayed : PayloadOf(e.frame) = p

\* C5  Bounded redelivery: a message that was sent once, was never acked and
\* of which no duplicate was made, and that is no longer parked, on main or in
\* processing while the reaper is between iterations, has been delivered
\* exactly max_receives times.
C5_ExactlyN ==
    \A p \in Payloads :
        (status[p] = "sent" /\ rpc = "idle" /\ Gone(p) /\ ~Parked(p))
            => delivered[p] = MaxReceives

\* C6  DLQ order under redrive: when the reaper has found P1, P2, ... exhausted
\* in that order and main is empty, redrive_dlq() leaves main such that the
\* next receive() calls return P1, P2, ... in that order.
C6_RedriveOrder ==
    (main = <<>> /\ escalated # <<>>)
        => PopPayloads(redrive_dlq(main, dlq).main) = escalated

\* C7  Terminal nack reaches the DLQ: a message that was nacked on each of its
\* max_receives deliveries and is no longer on main or in processing is in dlq.
C7_TerminalNack ==
    \A p \in Payloads :
        (status[p] = "sent" /\ nacks[p] = MaxReceives
             /\ delivered[p] = MaxReceives /\ Gone(p))
        => p \in Range(dlq)

\* C8  Exactly one location: when the reaper is between two iterations, every
\* message that was sent and not acked, and that no failed reaper iteration
\* has left behind twice, is in exactly one of main, processing, delayed and
\* dlq.
C8_ExactlyOneLocation ==
    rpc = "idle" => \A p \in Payloads : status[p] = "sent" => Locations(p) = 1

\* C9  The visibility timeout is measured from the claim: a step of the reaper
\* that takes a frame out of processing never takes one that receive() moved
\* there less than ack_deadline ago.
C9_TimeoutFromClaim ==
    [][(rkeys # <<>> /\ rkeys' = Tail(rkeys)
            /\ Head(rkeys) \in Range(processing)
            /\ Head(rkeys) \notin Range(processing'))
         => Head(rkeys) \notin {c.frame : c \in claims}]_vars

\* C10  Attempt bound: every frame stored in main, processing or delayed has
\* attempts < max_receives, and every message the reaper refused to store
\* again for that reason is in dlq.
C10_AttemptBound ==
    /\ \A f \in StoredFrames : StoredAttempts(f) < MaxReceives
    /\ \A p \in Range(escalated) : p \in Range(dlq)

\* list l without its i-th entry
RemoveAt(l, i) == SubSeq(l, 1, i - 1) \o SubSeq(l, i + 1, Len(l))

\* C11  Ack effect: an ack() that returns Ok leaves the frame the Delivery
\* carries out of processing: if the frame was there, exactly that one entry
\* is removed, and if the reaper had already taken it, processing is
\* unchanged; every other entry of processing and the lists main, delayed and
\* dlq are unchanged.
C11_AckEffect ==
    [][\A s \in Slots :
          (Ack(s, FALSE) /\ ack(ackers[s], processing, FALSE).res = "Ok")
          => LET f == ackers[s].old_payload
             IN  /\ f \notin Range(processing')
                 /\ IF f \in Range(processing)
                    THEN \E i \in 1..Len(processing) :
                             processing[i] = f /\ processing' = RemoveAt(processing, i)
                    ELSE processing' = processing
                 /\ main' = main /\ delayed' = delayed /\ dlq' = dlq]_vars

\* an acked Delivery whose frame is gone from processing while another frame
\* with the same payload is still there
C11_Witness ==
    \E s \in Slots :
        /\ ackers[s].live /\ ackers[s].oked
        /\ ackers[s].old_payload \notin Range(processing)
        /\ \E f \in Range(processing) : PayloadOf(f) = ackers[s].payload

\* C11 as stated: every ack() that returns Ok removes exactly one entry of
\* processing, the frame of the Delivery.
C11_AsStated ==
    [][\A s \in Slots :
          (Ack(s, FALSE) /\ ack(ackers[s], processing, FALSE).res = "Ok")
          => \E i \in 1..Len(processing) :
                 /\ processing[i] = ackers[s].old_payload
                 /\ processing' = RemoveAt(processing, i)]_vars

\* the reaper has pushed a new frame of p to main and not yet removed the old
\* one from processing
ReEnqueued(p) == rpc = "lrem" /\ PayloadOf(Head(rkeys)) = p

\* C12  Claimed frames are invisible: the frame the next receive() or
\* receive_all() would return is not an entry of processing, and if its
\* message was never acked nor left behind twice by a failed reaper iteration,
\* the message has no frame in processing unless the reaper is re-enqueueing
\* it; with every sent message claimed and un-acked, receive_all returns no
\* Delivery and moves nothing.
C12_ClaimedInvisible ==
    LET r == receive_with_timeout(main, processing)
        q == r.delivery.payload
    IN  /\ r.res = "Ok" =>
              /\ r.delivery.old_payload \notin Range(processing)
              /\ (status[q] = "sent" /\ Count(processing, q) > 0) => ReEnqueued(q)
        /\ (\A p \in Payloads : status[p] # "none" =>
                  status[p] = "sent" /\ Count(processing, p) > 0 /\ ~ReEnqueued(p))
              => r.res = "None" /\ r.processing = processing

\* two messages sent, both claimed, none acked
C12_Witness ==
    /\ \A p \in Payloads : status[p] = "sent" /\ Count(processing, p) = 1
    /\ main = <<>>

\* list l in reverse order
Reverse(l) == [i \in 1..Len(l) |-> l[Len(l) + 1 - i]]

\* C18  FIFO without redelivery: the frames that send_raw wrote and that are
\* still on main leave it in the order of their send_raw calls; so when no
\* frame re-enqueued by the reaper is on main, receive() returns the message
\* whose send_raw call completed first.
C18_Fifo ==
    /\ SelectSeq(Reverse(main), LAMBDA f : f \in Range(fifo)) = fifo
    /\ (main # <<>> /\ Len(fifo) = Len(main))
          => receive_with_timeout(main, processing).delivery.old_payload = Head(fifo)

\* two messages were sent, none received: the first one sent is a
C18_Witness ==
    /\ Len(main) = 2 /\ Len(fifo) = 2
    /\ PayloadOf(fifo[1]) = <<"a">>
    /\ PayloadOf(fifo[2]) = <<"b", "|", "c">>

\* C13  receive() on a main list that stays empty does not block forever: the
\* call returns.
C13_ReceiveTerminates ==
    (call.op = "receive") ~> (call.op # "receive" \/ main # <<>>)

\* C14  receive_all(max, deadline) moves at most one frame and returns Ok with
\* one Delivery when a frame is available within the deadline and Ok with an
\* empty sequence otherwise: every call returns Ok with at most one Delivery.
C14_ReceiveAllAtMostOne ==
    (call.op = "receive_all")
        ~> (call.op = "none" /\ ret.op = "receive_all" /\ ret.res = "Ok" /\ ret.n <= 1)

\* C19  set_ack_deadline(duration) returns Unsupported for every duration and
\* every state of the acker, and changes neither the acker nor a list.
C19_SetAckDeadlineUnsupported ==
    [][\A s \in Slots, d \in 0..MaxDeadline :
          SetAckDeadline(s, d)
          => /\ ret'.res = "Unsupported"
             /\ ackers' = ackers
             /\ lists' = lists]_vars

\* set_ack_deadline has returned Unsupported on a finalized Delivery
C19_Witness ==
    /\ ret.op = "set_ack_deadline" /\ ret.res = "Unsupported"
    /\ \E s \in Slots : ackers[s].live /\ ackers[s].already_acked_or_nacked

\* a frame in the two-field form id|bytes, as LegacyPush writes it
Legacy(frame) == frame.body \in Payloads

\* C15 as stated, for every legacy frame: it is received with payload = bytes
\* as a first receive.
C15_AsStated ==
    (main # <<>> /\ Legacy(main[Len(main)]))
        => LET r == receive_with_timeout(main, processing)
           IN  /\ r.res = "Ok"
               /\ r.delivery.payload = main[Len(main)].body
               /\ r.delivery.num_receives = 1

\* C16  Redrive: when redrive_dlq() returns Ok, dlq is empty and every payload
\* that was in dlq, which is every payload the reaper found exhausted since
\* the last redrive, is on main exactly once, framed with attempts 0.
C16_Redrive ==
    [][(RedriveDlq(FALSE) /\ redrive' = NoRedrive)
          => /\ dlq' = <<>>
             /\ \A p \in Range(dlq) \cup Range(escalated) :
                   /\ Count(main', p) = 1
                   /\ \A f \in Range(main') :
                         PayloadOf(f) = p => StoredAttempts(f) = 0]_vars

\* p waits in the delayed set and its time has not come
Waiting(p) == \E e \in delayed : PayloadOf(e.frame) = p /\ e.due > 0
\* p is in the delayed set and the promoter has not pushed its frame
Unpromoted(p) ==
    \E e \in delayed : PayloadOf(e.frame) = p /\ e.frame \notin Range(promoter)

C20_DynClamp ==
    [][\A b \in {NoMax} \cup 1..MaxBackend, m \in 0..(MaxBackend + 1), d \in 0..MaxDeadline :
          DynReceiveAll(b, m, d)
              => /\ call'.op = "receive_all"
                 /\ call'.timeout = d
                 /\ b # NoMax => /\ call'.max <= m
                                 /\ call'.max <= b
                                 /\ call'.max \in {m, b}
                 /\ b = NoMax => call'.max = m]_vars

\* a backend with a limit was asked for more than its limit
C20_Witness ==
    /\ call.op = "receive_all"
    /\ DOMAIN call = {"op", "timeout", "max", "asked", "backend_max"}
    /\ call.backend_max = MaxBackend
    /\ call.asked = MaxBackend + 1
    /\ call.max = MaxBackend

\* C21  Ack and reap are mutually exclusive: when the reaper has pushed the
\* rewritten frame of a key to main, the key is still in processing for the
\* reaper's LREM to remove, that is, no ack has removed it; a frame that an
\* ack removed is not re-enqueued.
C21_AckReapExclusive ==
    rpc = "lrem" => Head(rkeys) \in Range(processing)

\* C22  Attempt accounting: receive() moves the tail frame of main to the head
\* of processing with its bytes unchanged, and when the reaper re-enqueues an
\* overdue key whose counter is a, the frame it appends to main has an id that
\* no frame in use has, the payload of the key and the counter a + 1.
C22_AttemptAccounting ==
    [][/\ (\E keep \in BOOLEAN : Receive(keep))
            => /\ processing' = <<main[Len(main)]>> \o processing
               /\ main' = SubSeq(main, 1, Len(main) - 1)
       /\ (ReaperScan /\ rpc' = "lrem")
            => LET key == Head(rkeys)
                   f == main'[Len(main')]
               IN  /\ main' = Append(main, f)
                   /\ f \notin UsedFrames
                   /\ f.id # key.id
                   /\ PayloadOf(f) = PayloadOf(key)
                   /\ StoredAttempts(f) = StoredAttempts(key) + 1]_vars

\* the reaper has re-enqueued a frame that was claimed with counter 0: the
\* key is in processing as it was on main, the new frame carries counter 1
C22_Witness ==
    /\ rpc = "lrem"
    /\ Head(rkeys) \in Range(processing)
    /\ StoredAttempts(Head(rkeys)) = 0
    /\ main # <<>>
    /\ StoredAttempts(main[Len(main)]) = 1
    /\ PayloadOf(main[Len(main)]) = <<"b", "|", "c">>

\* C23  Nack effect: a nack() that no error interrupts, on a Delivery that is
\* not finalized and whose frame has stored attempts a, sets the finalized
\* flag and leaves main, delayed and dlq unchanged; when a + 1 >= max_receives
\* it removes the frame from processing as ack() does (the one entry with
\* these bytes, if it is still there), otherwise it leaves processing
\* unchanged.
C23_NackEffect ==
    [][\A s \in Slots :
          (Nack(s, FALSE) /\ ~ackers[s].already_acked_or_nacked)
          => LET f == ackers[s].old_payload
                 a == StoredAttempts(f)
             IN  /\ ackers'[s].already_acked_or_nacked
                 /\ main' = main /\ delayed' = delayed /\ dlq' = dlq
                 /\ IF a + 1 >= MaxReceives
                    THEN /\ f \notin Range(processing')
                         /\ IF f \in Range(processing)
                            THEN \E i \in 1..Len(processing) :
                                     /\ processing[i] = f
                                     /\ processing' = RemoveAt(processing, i)
                            ELSE processing' = processing
                    ELSE processing' = processing]_vars

\* a message was nacked on each of its max_receives deliveries; the last nack
\* took its frame out of processing
C23_Witness ==
    \E s \in Slots :
        /\ ackers[s].live /\ ackers[s].already_acked_or_nacked
        /\ ackers[s].num_receives = MaxReceives
        /\ status[ackers[s].payload] = "sent"
        /\ nacks[ackers[s].payload] = MaxReceives
        /\ Gone(ackers[s].payload)

\* C24  The reaper writes before it removes: the step that re-enqueues an
\* overdue key with attempts left appends the rewritten frame to main and
\* leaves processing as it is; the reaper removes such a key from processing
\* only in the step after that push, which leaves main as it is; an error
\* between the two commands changes no list, so the message is then in both
\* lists; and while the reaper is between the two commands a message that was
\* not acked is on main or in processing.
C24_WriteBeforeRemove ==
    /\ [][/\ (ReaperScan /\ rpc' = "lrem")
                => /\ processing' = processing
                   /\ Len(main') = Len(main) + 1
                   /\ SubSeq(main', 1, Len(main)) = main
                   /\ PayloadOf(main'[Len(main')]) = PayloadOf(Head(rkeys))
          /\ (ReaperStep /\ processing' # processing)
                => /\ main' = main
                   /\ \/ rpc = "lrem"
                      \/ Exhausted(internal_from_list(Head(rkeys)).num_receives)
          /\ (ReaperError /\ rpc = "lrem") => lists' = lists]_vars
    /\ [](\A p \in Payloads :
             (rpc = "lrem" /\ PayloadOf(Head(rkeys)) = p /\ status[p] \in Unacked)
                 => Count(main, p) + Count(processing, p) >= 1)

\* the reaper failed between its RPUSH and its LREM: the message is on main
\* and in processing
C24_Witness ==
    /\ rpc = "idle"
    /\ status[<<"a">>] = "dup"
    /\ Count(main, <<"a">>) = 1
    /\ Count(processing, <<"a">>) = 1

\* the id of the key was generated less than ack_deadline ago
Newer(key) == key.id.age < AckDeadline

\* C25  Reaper head gate: the step that peeks at processing and tests its
\* first entry modifies no list, and when processing is empty or its first
\* entry is newer than the validity limit the iteration ends with that step:
\* no batch is read and nothing is re-enqueued or removed, whatever the age of
\* the entries behind the first; the reaper changes a list only in an
\* iteration whose gate was open.
C25_HeadGate ==
    [][/\ ReaperPeek
            => /\ lists' = lists
               /\ (processing = <<>> \/ Newer(processing[1]))
                    => /\ rpc' = "idle"
                       /\ rkeys' = <<>>
       /\ ((ReaperStep \/ ReaperError) /\ lists' # lists)
            => /\ rpc \in {"scan", "lrem"}
               /\ rlimit # NoLimit]_vars

\* the reaper is between iterations, the first entry of processing is newer
\* than the limit and the entry behind it is overdue
C25_Witness ==
    /\ rpc = "idle"
    /\ Len(processing) = 2
    /\ Newer(processing[1])
    /\ ~Newer(processing[2])
    /\ \A le \in SUBSET Tied : KeyLeLimit(processing[2], [age |-> AckDeadline, le |-> le])

\* C26  Reaper early exit: when the scan of the batch comes to an entry that
\* is newer than the validity limit, it stops there: no overdue entry behind
\* that one is left for this iteration to re-enqueue or remove.
C26_EarlyExit ==
    [][(ReaperScan /\ rkeys # <<>> /\ ~KeyLeLimit(Head(rkeys), rlimit))
          => \A i \in 1..Len(rkeys') : ~KeyLeLimit(rkeys'[i], rlimit')]_vars

\* C27  Redelivery position: the frame the reaper re-enqueues is the one the
\* next receive() returns, with the payload of the reclaimed key, and that
\* receive leaves on main every frame that was waiting there before the
\* re-enqueue.
C27_RedeliveryPosition ==
    [][(ReaperScan /\ rpc' = "lrem")
          => LET f == CHOOSE g \in Range(main') : g \notin Range(main)
                 r == receive_with_timeout(main', processing')
             IN  /\ r.res = "Ok"
                 /\ r.delivery.old_payload = f
                 /\ r.delivery.payload = PayloadOf(Head(rkeys))
                 /\ r.main = main]_vars

\* the reaper has re-enqueued the frame of a behind which a frame written by
\* send_raw was already waiting
C27_Witness ==
    /\ rpc = "lrem"
    /\ Len(main) = 2
    /\ main[1] \in Range(fifo)
    /\ PayloadOf(main[2]) = <<"a">>
    /\ PayloadOf(Head(rkeys)) = <<"a">>
    /\ StoredAttempts(main[2]) = StoredAttempts(Head(rkeys)) + 1

\* the positions of the reaper task inside its loop
LoopPositions == {"idle", "batch", "scan", "lrem"}

\* C28  The reaper loop never ends by an error: the task is always at a
\* position of its loop; a failed iteration changes no list and leaves the
\* task at the start of the loop, where the next iteration can begin; and an
\* iteration that is under way gets back to the start of the loop.
C28_ReaperLoops ==
    /\ [](rpc \in LoopPositions)
    /\ [](rpc = "idle" => ENABLED ReaperPeek)
    /\ [][ReaperError => rpc' = "idle" /\ rkeys' = <<>> /\ lists' = lists]_vars
    /\ (rpc # "idle") ~> (rpc = "idle")

\* an iteration failed between its RPUSH and its LREM, and the next
\* iteration has opened its gate
C28_Witness ==
    /\ status[<<"a">>] = "dup"
    /\ rpc = "batch"
    /\ Count(main, <<"a">>) = 1

\* C29  reinsert_on_nack: with the flag set, a nack() of a Delivery that is
\* not finalized and whose attempts are not exhausted leaves a frame of the
\* message on main with the attempt counter of the nacked frame, and the
\* Delivery finalized.
C29_ReinsertOnNack ==
    [][\A s \in Slots :
          (NackWith(s, TRUE) /\ ~ackers[s].already_acked_or_nacked
               /\ ackers[s].num_receives < MaxReceives)
          => /\ ackers'[s].already_acked_or_nacked
             /\ \E f \in Range(main') :
                    /\ PayloadOf(f) = ackers[s].payload
                    /\ StoredAttempts(f) = StoredAttempts(ackers[s].old_payload)]_vars

\* C30  No double claim: a receive() takes its frame off main as it puts it
\* into processing, so that no frame is on main and in processing and no
\* frame is in processing twice; no two Deliveries carry the same frame; and
\* two Deliveries of the same message carry frames with different attempt
\* counters, that is, the reaper re-enqueued the message between the two
\* receives.
C30_NoDoubleClaim ==
    /\ Range(main) \cap Range(processing) = {}
    /\ \A i, j \in 1..Len(processing) : i # j => processing[i] # processing[j]
    /\ \A s, t \in Slots :
          (s # t /\ ackers[s].live /\ ackers[t].live)
          => /\ ackers[s].old_payload # ackers[t].old_payload
             /\ ackers[s].payload = ackers[t].payload
                  => ackers[s].num_receives # ackers[t].num_receives

\* two consumers hold a Delivery of the same message: the first receive and
\* the receive after the reaper re-enqueued it
C30_Witness ==
    \E s, t \in Slots :
        /\ ackers[s].live /\ ackers[t].live
        /\ ackers[s].payload = <<"a">> /\ ackers[t].payload = <<"a">>
        /\ ackers[s].num_receives = 1 /\ ackers[t].num_receives = 2
        /\ ~ackers[s].already_acked_or_nacked /\ ~ackers[t].already_acked_or_nacked

\* the Delivery in slot t is a redelivery of the message of the Delivery in
\* slot s: the reaper re-enqueued the message and it was received again, and
\* its frame is in processing
Redelivered(s, t) ==
    /\ s # t
    /\ ackers[s].live /\ ackers[t].live
    /\ ackers[s].payload = ackers[t].payload
    /\ ackers[s].num_receives < ackers[t].num_receives
    /\ ackers[t].old_payload \in Range(processing)

\* C31  A late ack cannot acknowledge a redelivery: when a message was
\* re-enqueued and received again, ack() on the earlier Delivery, not yet
\* finalized, returns Ok and sets its flag; it removes no entry of processing
\* but the frame of the earlier Delivery, if the reaper has not removed it
\* yet, and nothing otherwise; the frame of the later Delivery stays in
\* processing and main is unchanged.
C31_LateAck ==
    [][\A s, t \in Slots :
          (Redelivered(s, t) /\ ~ackers[s].already_acked_or_nacked /\ Ack(s, FALSE))
          => /\ ack(ackers[s], processing, FALSE).res = "Ok"
             /\ ackers'[s].already_acked_or_nacked
             /\ ackers[t].old_payload \in Range(processing')
             /\ ackers'[t] = ackers[t]
             /\ \A f \in Range(processing) :
                    f # ackers[s].old_payload => f \in Range(processing')
             /\ ackers[s].old_payload \notin Range(processing)
                    => processing' = processing
             /\ main' = main]_vars

\* the earlier Delivery was acked after the redelivery: its flag is set, its
\* frame is gone, and the frame of the later Delivery, not finalized, is in
\* processing
C31_Witness ==
    \E s, t \in Slots :
        /\ Redelivered(s, t)
        /\ ackers[s].already_acked_or_nacked /\ ackers[s].oked
        /\ ackers[s].old_payload \notin Range(processing)
        /\ ~ackers[t].already_acked_or_nacked
        /\ status[ackers[s].payload] = "acked"

\* C31 as stated: the ack on the earlier Delivery removes nothing.
C31_AsStated ==
    [][\A s, t \in Slots :
          (Redelivered(s, t) /\ ~ackers[s].already_acked_or_nacked /\ Ack(s, FALSE))
          => processing' = processing]_vars

\* C32  A failed ack can be retried: an ack() on a Delivery that is not
\* finalized, failing because the pool or the LREM command returns an error,
\* returns that error, leaves the finalized flag false and every list
\* unchanged; an ack() on the same Delivery right after it is carried out: it
\* returns Ok, not the double-finalize error, and leaves the frame out of
\* processing.
C32_FailedAckRetry ==
    /\ [](\A s \in Slots :
             (ackers[s].live /\ ~ackers[s].already_acked_or_nacked)
             => LET failed == ack(ackers[s], processing, TRUE)
                    retry == ack(failed.acker, failed.processing, FALSE)
                IN  /\ failed.res = "Generic"
                    /\ ~failed.acker.already_acked_or_nacked
                    /\ failed.processing = processing
                    /\ retry.res = "Ok"
                    /\ retry.acker.already_acked_or_nacked
                    /\ ackers[s].old_payload \notin Range(retry.processing))
    /\ [][\A s \in Slots :
             (Ack(s, TRUE) /\ ~ackers[s].already_acked_or_nacked)
             => /\ ~ackers'[s].already_acked_or_nacked
                /\ ackers'[s].live
                /\ lists' = lists]_vars

\* a Delivery that no call has finalized, whose frame is in processing and
\* whose ack fails when the command returns an error
C32_Witness ==
    \E s \in Slots :
        /\ ackers[s].live
        /\ ~ackers[s].already_acked_or_nacked /\ ~ackers[s].oked
        /\ ackers[s].old_payload \in Range(processing)
        /\ ack(ackers[s], processing, TRUE).res = "Generic"
        /\ ENABLED Ack(s, TRUE)

\* the stored value does not decode
Malformed(frame) == ~internal_from_list(frame).ok
\* the frames claimed less than ack_deadline ago
JustClaimed == {c.frame : c \in claims}
\* the frame as the next tick of the clock leaves it
SameFrame(f, g) == f.body = g.body /\ f.id.n = g.id.n

\* C33  A frame the reaper cannot decode blocks reclaim: the scan step that
\* comes to an overdue key that fails to decode ends the iteration, with the
\* rest of the batch unscanned and no list changed; no step removes a
\* malformed entry from processing or changes the order of the entries behind
\* it; and the reaper never re-enqueues or removes a key positioned behind an
\* overdue malformed entry that was in processing when the batch was read.
C33_MalformedBlocksReclaim ==
    [][/\ (ReaperScan /\ rkeys # <<>> /\ KeyLeLimit(Head(rkeys), rlimit)
               /\ Malformed(Head(rkeys)))
            => /\ rpc' = "idle"
               /\ rkeys' = <<>>
               /\ lists' = lists
       /\ \A i \in 1..Len(processing) :
             Malformed(processing[i])
             => \E k \in 1..Len(processing') :
                    /\ SameFrame(processing[i], processing'[k])
                    /\ Len(processing') - k <= Len(processing) - i
       /\ (ReaperStep /\ lists' # lists)
            => \A i, j \in 1..Len(processing) :
                   (/\ Malformed(processing[i])
                    /\ KeyLeLimit(processing[i], rlimit)
                    /\ processing[i] \notin JustClaimed
                    /\ processing[j] = Head(rkeys))
                   => j < i]_vars

\* the reaper is between iterations after the scan came to the malformed
\* legacy frame, which is overdue; behind it the frame of a, overdue too,
\* is still in processing and main is empty
C33_Witness ==
    /\ rpc = "idle"
    /\ main = <<>>
    /\ Len(processing) = 2
    /\ Malformed(processing[1]) /\ ~Newer(processing[1])
    /\ processing[1].id.age > AckDeadline
    /\ PayloadOf(processing[2]) = <<"a">>
    /\ processing[2].id.age > AckDeadline
    /\ delivered[<<"a">>] = 1

\* C34  A receive that pops a malformed frame is not undone: receive() and
\* receive_all() on a main whose tail frame fails to decode return the error
\* with no Delivery, the frame has left main and is at the head of
\* processing, no Delivery is created; no live acker ever names a malformed
\* entry of processing, and no step takes such an entry out of processing.
C34_MalformedReceive ==
    /\ [](\A f \in Range(processing) :
             Malformed(f) => \A s \in Slots : ackers[s].live => ackers[s].old_payload # f)
    /\ []((Len(main) > 0 /\ Malformed(main[Len(main)]))
            => LET r == receive_with_timeout(main, processing)
               IN  /\ receive(r) = [res |-> "Generic", n |-> 0]
                   /\ receive_all(r) = [res |-> "Generic", n |-> 0]
                   /\ r.delivery = NoAcker
                   /\ r.main = SubSeq(main, 1, Len(main) - 1)
                   /\ r.processing = <<main[Len(main)]>> \o processing)
    /\ [][/\ ((\E keep \in BOOLEAN : Receive(keep)) /\ Malformed(main[Len(main)]))
               => /\ ackers' = ackers
                  /\ main' = SubSeq(main, 1, Len(main) - 1)
                  /\ processing' = <<main[Len(main)]>> \o processing
          /\ \A f \in Range(processing) :
                Malformed(f) => \E g \in Range(processing') : SameFrame(f, g)]_vars

\* the malformed frame was taken by a receive a moment ago: it is in
\* processing and not on main, no Delivery is live and nothing was delivered
C34_Witness ==
    /\ \E f \in Range(processing) :
          /\ Malformed(f)
          /\ f \in JustClaimed
          /\ f \notin Range(main)
    /\ \A s \in Slots : ~ackers[s].live
    /\ \A p \in Payloads : delivered[p] = 0

====
